---- MODULE Spec2Model ----
(***************************************************************************)
(* BulidRunTaskProvider (src/src/tasks/taskProvider.ts): the build / run   *)
(* commands of the extension.  Every command issued by the user is one     *)
(* invocation i.  An invocation runs buildHandler, which suspends at each  *)
(* `await`; one action of the model is one run-to-completion step of the   *)
(* JavaScript event loop: the code between two suspension points, or one   *)
(* callback of the output stream's subscription.                           *)
(*                                                                         *)
(* calls[i] is the sequence of calls invocation i has made on its          *)
(* collaborators (logger, outputChannel, shell, moduleInstaller, process   *)
(* service) and on the resolve / reject functions of its completion        *)
(* promise, in program order.  The logger and the output channel are       *)
(* append-only sinks, so the entries an invocation wrote are exactly the   *)
(* logger.* / outputChannel.* records of calls[i].                         *)
(***************************************************************************)
EXTENDS Naturals, Sequences, FiniteSets

\* ---------------------------------------------------------------- bounds
MaxInvocations == 2
MaxItems == 2

Invocations == 1..MaxInvocations

\* ------------------------------------------------------- input domains
Targets == {"ios", "android"}
Folders == {"folderA"}
NoFolder == "undefined"
PromptResults == {"Install", "Cancel", "undefined"}
PythonPaths == {"python"}
BeewarePaths == {"beeware"}
\* An output item: the stream it was read from and its text.
Items == { [source |-> "stdout", out |-> "o1"],
           [source |-> "stderr", out |-> "o2"] }
Outs == { item.out : item \in Items }
Errors == {"spawn failed"}

EOL == "\n"
ApplicationName == "ApplicationName"

VARIABLES
    pc,                       \* where buildHandler of invocation i stands
    invoked,                  \* the public method the user called: build / run
    buildOrRun,               \* buildHandler's first parameter
    target,                   \* buildHandler's second parameter
    workspaceFolder,          \* result of selectWorkspaceFolder
    cookieCutterIsInstalled,  \* result of moduleInstaller.isInstalled
    result,                   \* answer to showInformationMessage
    installResult,            \* result of moduleInstaller.install
    pythonPath,               \* settings read for the workspace folder
    beewarePath,
    calls,                    \* calls made by the invocation, in order
    emitted,                  \* items the subprocess has emitted so far
    delivered,                \* how many of them the stream has delivered
    proc,                     \* none / running / completed / errored
    streamError,              \* the error of an errored subprocess
    publicPromise,            \* promise returned by build(target) / run(target)
    handlerPromise,           \* promise returned by buildHandler
    completion                \* promise handed to shell.withProgress

vars == <<pc, invoked, buildOrRun, target, workspaceFolder,
          cookieCutterIsInstalled, result, installResult, pythonPath,
          beewarePath, calls, emitted, delivered, proc, streamError,
          publicPromise, handlerPromise, completion>>

stream == <<emitted, delivered, proc, streamError>>

locals == <<workspaceFolder, cookieCutterIsInstalled, result, installResult,
            pythonPath, beewarePath>>

\* ------------------------------------------------------------- helpers
Call(op, arg) == [op |-> op, arg |-> arg]

NoPromise == [state |-> "none", value |-> "undefined"]
Pending == [state |-> "pending", value |-> "undefined"]
Resolved == [state |-> "resolved", value |-> "undefined"]
Rejected(error) == [state |-> "rejected", value |-> error]

\* A promise is settled once: resolve / reject on a settled promise is a no-op.
Settle(p, outcome) == IF p.state = "pending" THEN outcome ELSE p

\* The effect of the resolve / reject calls among cs on promise p.
RECURSIVE SettleAll(_, _)
SettleAll(p, cs) ==
    IF cs = <<>> THEN p
    ELSE SettleAll(
             IF Head(cs).op = "resolve" THEN Settle(p, Resolved)
             ELSE IF Head(cs).op = "reject"
                  THEN Settle(p, Rejected(Head(cs).arg[1]))
                  ELSE p,
             Tail(cs))

\* JavaScript truthiness of a string.
Truthy(s) == s # ""

Init ==
    /\ pc = [i \in Invocations |-> "idle"]
    /\ invoked = [i \in Invocations |-> "none"]
    /\ buildOrRun = [i \in Invocations |-> "none"]
    /\ target = [i \in Invocations |-> "none"]
    /\ workspaceFolder = [i \in Invocations |-> "unset"]
    /\ cookieCutterIsInstalled = [i \in Invocations |-> "unset"]
    /\ result = [i \in Invocations |-> "unset"]
    /\ installResult = [i \in Invocations |-> "unset"]
    /\ pythonPath = [i \in Invocations |-> "unset"]
    /\ beewarePath = [i \in Invocations |-> "unset"]
    /\ calls = [i \in Invocations |-> <<>>]
    /\ emitted = [i \in Invocations |-> <<>>]
    /\ delivered = [i \in Invocations |-> 0]
    /\ proc = [i \in Invocations |-> "none"]
    /\ streamError = [i \in Invocations |-> "none"]
    /\ publicPromise = [i \in Invocations |-> NoPromise]
    /\ handlerPromise = [i \in Invocations |-> NoPromise]
    /\ completion = [i \in Invocations |-> NoPromise]

\* ------------------------------------------ decisions taken by the code
\* Line 40: the word of the header log entry.
HeaderWord(mode) == IF Truthy(mode) THEN "Build" ELSE "Run"

\* Line 54: the word of the progress title.
TitleWord(mode) == IF Truthy(mode) THEN "Building" ELSE "Running"

\* Line 69: the word of the failure log entry.
FailedWord(mode) == IF Truthy(mode) THEN "Build failed" ELSE "Run failed"

\* A handler that goes on without a folder.
NoFolderSelected_Ignored(folder) == FALSE

\* Line 42: `!workspaceFolder`.
NoFolderSelected(folder) == folder = NoFolder

\* Line 79: `!cookieCutterIsInstalled`.
NotInstalled(isInstalled) == isInstalled = "false"

\* A prompt check that takes only an explicit 'Cancel' as a refusal.
Declined_OnlyCancel(answer) == answer = "Cancel"

\* Line 81: `result !== 'Install'`.
Declined(answer) == answer # "Install"

\* A check that takes the module as installed whatever install returned.
InstallFailed_Ignored(ok) == FALSE

\* Line 86: `!await this.moduleInstaller.install(...)`.
InstallFailed(ok) == ok = "false"

\* A mode word chosen by the truthiness test of lines 40, 54 and 69.
Cmd_Truthy(mode) == IF Truthy(mode) THEN "build" ELSE "run"

\* Line 58: the mode word handed to the subprocess.
Cmd(mode) == IF mode = "build" THEN "build" ELSE "run"

\* Line 59: [...executionInfo.args, cmd, target].
Args(executionInfo, cmd, tgt) == executionInfo.args \o <<cmd, tgt>>

\* BeeWareExecutionHelper.buildExecutionArgs (./helper): the interpreter is
\* the command, the toolchain path gives the leading arguments.
buildExecutionArgs(python, beeware) ==
    [command |-> python, args |-> <<beeware>>]

\* A classification that logs every item at informational severity.
Severity_AlwaysInfo(item) == "logger.info"

\* Lines 62-66: the logger method an output item goes to.
Severity(item) ==
    IF item.source = "stderr" THEN "logger.error" ELSE "logger.info"

\* A next callback that appends only in the else branch.
OnNext_AppendInElse(item) ==
    IF item.source = "stderr"
    THEN << Call("logger.error", <<item.out>>) >>
    ELSE << Call("logger.info", <<item.out>>),
            Call("outputChannel.append", <<item.out>>) >>

\* A next callback that shows stderr items without logging them.
OnNext_StderrNotLogged(item) ==
    IF item.source = "stderr"
    THEN << Call("outputChannel.append", <<item.out>>) >>
    ELSE << Call("logger.info", <<item.out>>),
            Call("outputChannel.append", <<item.out>>) >>

\* A next callback that takes the first item for the end of the run.
OnNext_ResolvesEarly(item) ==
    << Call(Severity(item), <<item.out>>),
       Call("outputChannel.append", <<item.out>>),
       Call("resolve", <<>>) >>

\* Lines 61-68: the subscription's next callback.
OnNext(item) ==
    << Call(Severity(item), <<item.out>>),
       Call("outputChannel.append", <<item.out>>) >>

\* An error callback that logs the failure and swallows it.
OnError_Swallowed(mode, error) ==
    << Call("logger.error", <<FailedWord(mode), error>>),
       Call("resolve", <<>>) >>

\* An error callback that starts the subprocess again.
OnError_Retry(mode, error) ==
    << Call("logger.error", <<FailedWord(mode), error>>),
       Call("execObservable", <<>>),
       Call("reject", <<error>>) >>

\* Lines 68-71: the subscription's error callback.
OnError(mode, error) ==
    << Call("logger.error", <<FailedWord(mode), error>>),
       Call("reject", <<error>>) >>

\* Lines 71-73: the subscription's complete callback.
OnComplete == << Call("resolve", <<>>) >>

\* ------------------------------------------------------------- actions
\* Lines 38-41: buildHandler up to its first await.
HandlerStart(i, mode, tgt) ==
    /\ buildOrRun' = [buildOrRun EXCEPT ![i] = mode]
    /\ target' = [target EXCEPT ![i] = tgt]
    /\ calls' = [calls EXCEPT ![i] = @ \o
           << Call("logger.info", <<EOL>>),
              Call("logger.info", <<HeaderWord(mode), tgt>>),
              Call("selectWorkspaceFolder", <<>>) >>]
    /\ handlerPromise' = [handlerPromise EXCEPT ![i] = Pending]
    /\ pc' = [pc EXCEPT ![i] = "selectWorkspaceFolder"]

\* Invocations are numbered in the order the user issues the commands.
CanIssue(i) ==
    /\ pc[i] = "idle"
    /\ \A j \in Invocations : j < i => pc[j] # "idle"

\* Lines 32-34: build calls buildHandler and returns without awaiting it.
build(i, tgt) ==
    /\ CanIssue(i)
    /\ invoked' = [invoked EXCEPT ![i] = "build"]
    /\ HandlerStart(i, "build", tgt)
    /\ publicPromise' = [publicPromise EXCEPT ![i] = Resolved]
    /\ UNCHANGED <<locals, stream, completion>>

\* Lines 35-37: run calls buildHandler and returns without awaiting it.
run(i, tgt) ==
    /\ CanIssue(i)
    /\ invoked' = [invoked EXCEPT ![i] = "run"]
    /\ HandlerStart(i, "run", tgt)
    /\ publicPromise' = [publicPromise EXCEPT ![i] = Resolved]
    /\ UNCHANGED <<locals, stream, completion>>

\* A handler that gives up by throwing instead of returning.
HandlerReturn_Throws(i) ==
    /\ handlerPromise' =
           [handlerPromise EXCEPT ![i] = Settle(@, Rejected("aborted"))]
    /\ pc' = [pc EXCEPT ![i] = "done"]

\* buildHandler returns: its promise resolves and nothing more runs.
HandlerReturn(i) ==
    /\ handlerPromise' = [handlerPromise EXCEPT ![i] = Settle(@, Resolved)]
    /\ pc' = [pc EXCEPT ![i] = "done"]

\* Lines 41-45, 76-78: selectWorkspaceFolder answers; without a folder the
\* handler returns, otherwise checkAndInstallModule starts.
selectWorkspaceFolder(i, folder) ==
    /\ pc[i] = "selectWorkspaceFolder"
    /\ workspaceFolder' = [workspaceFolder EXCEPT ![i] = folder]
    /\ IF NoFolderSelected(folder)
       THEN /\ HandlerReturn(i)
            /\ UNCHANGED calls
       ELSE /\ calls' = [calls EXCEPT ![i] = @ \o
                   << Call("logger.info",
                           <<"Checking if module is installed.", "beeware">>),
                      Call("isInstalled", <<"beeware", folder>>) >>]
            /\ pc' = [pc EXCEPT ![i] = "isInstalled"]
            /\ UNCHANGED handlerPromise
    /\ UNCHANGED <<invoked, buildOrRun, target, cookieCutterIsInstalled,
                   result, installResult, pythonPath, beewarePath, stream,
                   publicPromise, completion>>

\* Lines 78-86: isInstalled answers; an absent module prompts the user,
\* otherwise control falls through to moduleInstaller.install.
isInstalled(i, answer) ==
    /\ pc[i] = "isInstalled"
    /\ cookieCutterIsInstalled' = [cookieCutterIsInstalled EXCEPT ![i] = answer]
    /\ IF NotInstalled(answer)
       THEN /\ calls' = [calls EXCEPT ![i] = @ \o
                   << Call("showInformationMessage",
                           <<"Install", "Cancel">>) >>]
            /\ pc' = [pc EXCEPT ![i] = "showInformationMessage"]
       ELSE /\ calls' = [calls EXCEPT ![i] = @ \o
                   << Call("install", <<"beeware", workspaceFolder[i]>>) >>]
            /\ pc' = [pc EXCEPT ![i] = "install"]
    /\ UNCHANGED <<invoked, buildOrRun, target, workspaceFolder, result,
                   installResult, pythonPath, beewarePath, stream,
                   publicPromise, handlerPromise, completion>>

\* Lines 80-86, 45-47: the prompt is answered or dismissed.
showInformationMessage(i, answer) ==
    /\ pc[i] = "showInformationMessage"
    /\ result' = [result EXCEPT ![i] = answer]
    /\ IF Declined(answer)
       THEN /\ HandlerReturn(i)
            /\ UNCHANGED calls
       ELSE /\ calls' = [calls EXCEPT ![i] = @ \o
                   << Call("install", <<"beeware", workspaceFolder[i]>>) >>]
            /\ pc' = [pc EXCEPT ![i] = "install"]
            /\ UNCHANGED handlerPromise
    /\ UNCHANGED <<invoked, buildOrRun, target, workspaceFolder,
                   cookieCutterIsInstalled, installResult, pythonPath,
                   beewarePath, stream, publicPromise, completion>>

\* Lines 86-91, 45-49: install answers; on success checkAndInstallModule
\* returns true and the handler asks for a process service.
install(i, ok) ==
    /\ pc[i] = "install"
    /\ installResult' = [installResult EXCEPT ![i] = ok]
    /\ IF InstallFailed(ok)
       THEN /\ HandlerReturn(i)
            /\ UNCHANGED calls
       ELSE /\ calls' = [calls EXCEPT ![i] = @ \o
                   << Call("logger.info",
                           <<"Module is installed.", "beeware">>),
                      Call("create", <<workspaceFolder[i]>>) >>]
            /\ pc' = [pc EXCEPT ![i] = "create"]
            /\ UNCHANGED handlerPromise
    /\ UNCHANGED <<invoked, buildOrRun, target, workspaceFolder,
                   cookieCutterIsInstalled, result, pythonPath, beewarePath,
                   stream, publicPromise, completion>>

\* Lines 49-57, 75: the process service is there; the settings are read, the
\* channel is shown, withProgress is handed the task and the handler returns
\* without awaiting it.
create(i, python, beeware) ==
    /\ pc[i] = "create"
    /\ pythonPath' = [pythonPath EXCEPT ![i] = python]
    /\ beewarePath' = [beewarePath EXCEPT ![i] = beeware]
    /\ calls' = [calls EXCEPT ![i] = @ \o
           << Call("outputChannel.show", <<>>),
              Call("withProgress",
                   <<TitleWord(buildOrRun[i]), ApplicationName, target[i]>>) >>]
    /\ handlerPromise' = [handlerPromise EXCEPT ![i] = Settle(@, Resolved)]
    /\ pc' = [pc EXCEPT ![i] = "withProgress"]
    /\ UNCHANGED <<invoked, buildOrRun, target, workspaceFolder,
                   cookieCutterIsInstalled, result, installResult, stream,
                   publicPromise, completion>>

\* Lines 57-61: the shell runs the task: the completion promise is created,
\* the subprocess is started and its output stream is subscribed to.
withProgress(i) ==
    /\ pc[i] = "withProgress"
    /\ completion' = [completion EXCEPT ![i] = Pending]
    /\ calls' = [calls EXCEPT ![i] = @ \o
           << Call("execObservable",
                   << buildExecutionArgs(pythonPath[i], beewarePath[i]).command,
                      Args(buildExecutionArgs(pythonPath[i], beewarePath[i]),
                           Cmd(buildOrRun[i]), target[i]),
                      workspaceFolder[i] >>) >>]
    /\ proc' = [proc EXCEPT ![i] = "running"]
    /\ pc' = [pc EXCEPT ![i] = "subscribed"]
    /\ UNCHANGED <<invoked, buildOrRun, target, locals, emitted, delivered,
                   streamError, publicPromise, handlerPromise>>

\* A subscription whose resolve / reject functions are kept in a field of the
\* provider, where every invocation finds them.
RunCallback_SharedSettle(i, cs) ==
    /\ calls' = [calls EXCEPT ![i] = @ \o cs]
    /\ completion' = [j \in Invocations |-> SettleAll(completion[j], cs)]

\* The subscription runs one of its callbacks: the calls are made in order and
\* resolve / reject act on the completion promise.
RunCallback(i, cs) ==
    /\ calls' = [calls EXCEPT ![i] = @ \o cs]
    /\ completion' = [completion EXCEPT ![i] = SettleAll(@, cs)]

\* The process service turns what the subprocess writes into the notifications
\* of the output stream, which reach the subscription in the order they were
\* produced, the terminal one (error or complete) last.

\* The subprocess writes an item to stdout or stderr.
emit(i, item) ==
    /\ proc[i] = "running"
    /\ Len(emitted[i]) < MaxItems
    /\ emitted' = [emitted EXCEPT ![i] = Append(@, item)]
    /\ UNCHANGED <<pc, invoked, buildOrRun, target, locals, calls, delivered,
                   proc, streamError, publicPromise, handlerPromise,
                   completion>>

\* The subprocess ends normally.
exit(i) ==
    /\ proc[i] = "running"
    /\ proc' = [proc EXCEPT ![i] = "completed"]
    /\ UNCHANGED <<pc, invoked, buildOrRun, target, locals, calls, emitted,
                   delivered, streamError, publicPromise, handlerPromise,
                   completion>>

\* The subprocess fails.
fail(i, err) ==
    /\ proc[i] = "running"
    /\ proc' = [proc EXCEPT ![i] = "errored"]
    /\ streamError' = [streamError EXCEPT ![i] = err]
    /\ UNCHANGED <<pc, invoked, buildOrRun, target, locals, calls, emitted,
                   delivered, publicPromise, handlerPromise, completion>>

\* Lines 61-68: the stream hands the oldest undelivered item to the next
\* callback.
next(i) ==
    /\ pc[i] = "subscribed"
    /\ delivered[i] < Len(emitted[i])
    /\ delivered' = [delivered EXCEPT ![i] = @ + 1]
    /\ RunCallback(i, OnNext(emitted[i][delivered[i] + 1]))
    /\ UNCHANGED <<pc, invoked, buildOrRun, target, locals, emitted, proc,
                   streamError, publicPromise, handlerPromise>>

\* Lines 68-71: every item is delivered and the stream signals the error;
\* the stream is over.
error(i) ==
    /\ pc[i] = "subscribed"
    /\ delivered[i] = Len(emitted[i])
    /\ proc[i] = "errored"
    /\ RunCallback(i, OnError(buildOrRun[i], streamError[i]))
    /\ pc' = [pc EXCEPT ![i] = "done"]
    /\ UNCHANGED <<invoked, buildOrRun, target, locals, emitted, delivered,
                   proc, streamError, publicPromise, handlerPromise>>

\* Lines 71-73: every item is delivered and the stream completes; the stream
\* is over.
complete(i) ==
    /\ pc[i] = "subscribed"
    /\ delivered[i] = Len(emitted[i])
    /\ proc[i] = "completed"
    /\ RunCallback(i, OnComplete)
    /\ pc' = [pc EXCEPT ![i] = "done"]
    /\ UNCHANGED <<invoked, buildOrRun, target, locals, emitted, delivered,
                   proc, streamError, publicPromise, handlerPromise>>

Next ==
    \/ \E i \in Invocations, t \in Targets : build(i, t)
    \/ \E i \in Invocations, t \in Targets : run(i, t)
    \/ \E i \in Invocations, f \in Folders \cup {NoFolder} :
           selectWorkspaceFolder(i, f)
    \/ \E i \in Invocations, a \in {"true", "false"} : isInstalled(i, a)
    \/ \E i \in Invocations, a \in PromptResults : showInformationMessage(i, a)
    \/ \E i \in Invocations, ok \in {"true", "false"} : install(i, ok)
    \/ \E i \in Invocations, p \in PythonPaths, b \in BeewarePaths :
           create(i, p, b)
    \/ \E i \in Invocations : withProgress(i)
    \/ \E i \in Invocations, item \in Items : emit(i, item)
    \/ \E i \in Invocations : exit(i)
    \/ \E i \in Invocations, e \in Errors : fail(i, e)
    \/ \E i \in Invocations : next(i)
    \/ \E i \in Invocations : error(i)
    \/ \E i \in Invocations : complete(i)

Spec == Init /\ [][Next]_vars

\* The stream's callbacks are queued on the event loop, which runs every
\* callback it holds: a notification the stream can deliver is delivered.
\* Nothing obliges the user to answer a prompt or the subprocess to end.
Deliver(i) == next(i) \/ error(i) \/ complete(i)

FairSpec == Spec /\ \A i \in Invocations : WF_vars(Deliver(i))

\* ------------------------------------------------- views of the calls
CallsOf(i, ops) == SelectSeq(calls[i], LAMBDA c : c.op \in ops)

ExecCalls(i) == CallsOf(i, {"execObservable"})

InstallCalls(i) == CallsOf(i, {"install"})

Appends(i) == CallsOf(i, {"outputChannel.append"})

\* A log entry whose message is the text of an output item.
IsItemLog(c) ==
    /\ c.op \in {"logger.info", "logger.error"}
    /\ Len(c.arg) = 1
    /\ c.arg[1] \in Outs

ItemLogs(i) == SelectSeq(calls[i], IsItemLog)

\* The positions in calls[i] of the calls that satisfy Test.
Positions(i, Test(_)) ==
    SelectSeq([k \in 1..Len(calls[i]) |-> k], LAMBDA k : Test(calls[i][k]))

IsAppend(c) == c.op = "outputChannel.append"

Texts(cs) == [k \in 1..Len(cs) |-> cs[k].arg[1]]

EmittedOuts(i) == [k \in 1..Len(emitted[i]) |-> emitted[i][k].out]

\* The stream has run one of its terminal callbacks.
StreamOver(i) == pc[i] = "done" /\ proc[i] \in {"completed", "errored"}

\* -------------------------------------------------------------- claims
\* C1: when selectWorkspaceFolder yields no folder, the invocation never
\* calls execObservable, in any later state.
C1_NoFolderNoSubprocess ==
    \A i \in Invocations :
        workspaceFolder[i] = NoFolder => ExecCalls(i) = <<>>

C1_Witness ==
    \E i \in Invocations : workspaceFolder[i] = NoFolder /\ pc[i] = "done"

\* C2: when isInstalled reports the module as not installed and the prompt
\* is answered with anything but 'Install' (a dismissal included), the
\* invocation never calls execObservable.
C2_DeclinedNoSubprocess ==
    \A i \in Invocations :
        (cookieCutterIsInstalled[i] = "false"
            /\ result[i] \in PromptResults \ {"Install"})
        => ExecCalls(i) = <<>>

C2_Witness ==
    \E i \in Invocations :
        /\ cookieCutterIsInstalled[i] = "false"
        /\ result[i] = "undefined"
        /\ pc[i] = "done"

\* C3: when the subprocess errors, the promise returned by build(target) or
\* run(target) rejects with the subprocess error.
C3_ErrorReachesCaller ==
    \A i \in Invocations :
        (StreamOver(i) /\ proc[i] = "errored")
        => publicPromise[i] = Rejected(streamError[i])

\* C4: install is called only if the module is absent: when isInstalled
\* reports the module as installed, install is never called.
C4_InstallOnlyIfAbsent ==
    \A i \in Invocations :
        cookieCutterIsInstalled[i] = "true" => InstallCalls(i) = <<>>

\* C5: a subprocess that completed has its completion promise eventually
\* resolved, and once it is resolved the log entries written for output items
\* are the emitted items: all of them, once each, in emission order.
C5_CompletedRunResolvesWithFullLog ==
    /\ [](\A i \in Invocations :
            completion[i].state = "resolved"
            => Texts(ItemLogs(i)) = EmittedOuts(i))
    /\ \A i \in Invocations :
            (proc[i] = "completed") ~> (completion[i].state = "resolved")

C5_Witness ==
    \E i \in Invocations :
        /\ completion[i].state = "resolved"
        /\ Len(emitted[i]) >= 2
        /\ emitted[i][1] # emitted[i][2]

\* C6: when the output stream has signalled an error, the completion promise
\* is rejected with that error, a logger.error call carrying the error comes
\* before the reject call, and the promise is never resolved.
C6_ErrorRejectsAfterErrorLog ==
    \A i \in Invocations :
        proc[i] = "errored" =>
            /\ completion[i].state # "resolved"
            /\ CallsOf(i, {"resolve"}) = <<>>
            /\ StreamOver(i) =>
                /\ completion[i] = Rejected(streamError[i])
                /\ \E k, m \in 1..Len(calls[i]) :
                    /\ k < m
                    /\ calls[i][k].op = "logger.error"
                    /\ Len(calls[i][k].arg) = 2
                    /\ calls[i][k].arg[2] = streamError[i]
                    /\ calls[i][m] = Call("reject", <<streamError[i]>>)

C6_Witness ==
    \E i \in Invocations :
        StreamOver(i) /\ proc[i] = "errored" /\ Len(emitted[i]) > 0

\* C7: every delivered item has exactly one log entry, at error severity if
\* its source is 'stderr' and at informational severity otherwise.
C7_SeverityBySource ==
    \A i \in Invocations :
        /\ Len(ItemLogs(i)) = delivered[i]
        /\ \A k \in 1..delivered[i] :
            /\ ItemLogs(i)[k].arg = <<emitted[i][k].out>>
            /\ ItemLogs(i)[k].op =
                   IF emitted[i][k].source = "stderr"
                   THEN "logger.error" ELSE "logger.info"

C7_Witness ==
    \E i \in Invocations :
        /\ delivered[i] >= 2
        /\ emitted[i][1].source = "stderr"
        /\ emitted[i][2].source = "stdout"

\* C8: execObservable is called with the interpreter as the command and with
\* the toolchain arguments followed by exactly the mode word of the command
\* the user invoked and the target.
C8_SubprocessArguments ==
    \A i \in Invocations :
        \A k \in 1..Len(ExecCalls(i)) :
            /\ ExecCalls(i)[k].arg[1] = pythonPath[i]
            /\ ExecCalls(i)[k].arg[2] =
                   buildExecutionArgs(pythonPath[i], beewarePath[i]).args
                       \o <<invoked[i], target[i]>>

C8_Witness ==
    \E i, j \in Invocations :
        /\ invoked[i] = "run" /\ ExecCalls(i) # <<>>
        /\ invoked[j] = "build" /\ ExecCalls(j) # <<>>

\* C9: an invocation calls execObservable at most once in its lifetime, also
\* after the subprocess errored or completed.
C9_AtMostOneSubprocess ==
    \A i \in Invocations : Len(ExecCalls(i)) <= 1

C9_Witness ==
    \E i, j \in Invocations :
        /\ StreamOver(i) /\ proc[i] = "errored" /\ Len(ExecCalls(i)) = 1
        /\ StreamOver(j) /\ proc[j] = "completed" /\ Len(ExecCalls(j)) = 1

\* C10: the texts appended to the output channel are the texts of the items
\* delivered so far, in order, each appended after the log entry of the same
\* item; when the stream is over they are the whole emitted sequence.
C10_ChannelGetsEveryItem ==
    \A i \in Invocations :
        /\ Texts(Appends(i)) = SubSeq(EmittedOuts(i), 1, delivered[i])
        /\ Len(Positions(i, IsItemLog)) = Len(Positions(i, IsAppend))
        /\ \A k \in 1..Len(Positions(i, IsAppend)) :
               Positions(i, IsItemLog)[k] < Positions(i, IsAppend)[k]
        /\ StreamOver(i) => Texts(Appends(i)) = EmittedOuts(i)

C10_Witness ==
    \E i \in Invocations :
        /\ StreamOver(i)
        /\ Len(emitted[i]) >= 2
        /\ emitted[i][1].source = "stderr"
        /\ emitted[i][2].source = "stdout"

\* The invocation took one of the two recoverable aborts.
NoFolderAbort(i) == workspaceFolder[i] = NoFolder

DeclinedAbort(i) ==
    /\ cookieCutterIsInstalled[i] = "false"
    /\ result[i] \in PromptResults \ {"Install"}

\* C11: an invocation that aborts because no folder was selected, or because
\* the module was absent and the user declined, never records an error-level
\* log entry and none of its promises (the handler's, the one returned by
\* build / run, the completion promise) is rejected.
C11_AbortsAreSilent ==
    \A i \in Invocations :
        (NoFolderAbort(i) \/ DeclinedAbort(i)) =>
            /\ CallsOf(i, {"logger.error"}) = <<>>
            /\ handlerPromise[i].state # "rejected"
            /\ publicPromise[i].state # "rejected"
            /\ completion[i].state # "rejected"
            /\ pc[i] = "done" /\ handlerPromise[i] = Resolved

C11_Witness ==
    \E i, j \in Invocations :
        /\ NoFolderAbort(i) /\ pc[i] = "done"
        /\ DeclinedAbort(j) /\ pc[j] = "done"

\* C12: execObservable is called only after moduleInstaller.install was
\* called and returned true; an install that returned false, whether or not
\* the module was reported installed, leaves the invocation without a
\* subprocess and without the 'is installed' log entry.
C12_SubprocessOnlyAfterInstall ==
    \A i \in Invocations :
        /\ \A m \in 1..Len(calls[i]) :
               calls[i][m].op = "execObservable" =>
                   /\ installResult[i] = "true"
                   /\ \E k \in 1..(m - 1) : calls[i][k].op = "install"
        /\ installResult[i] = "false" =>
               /\ ExecCalls(i) = <<>>
               /\ \A k \in 1..Len(calls[i]) :
                      calls[i][k] #
                          Call("logger.info",
                               <<"Module is installed.", "beeware">>)

C12_Witness ==
    \E i, j \in Invocations :
        /\ installResult[i] = "false" /\ cookieCutterIsInstalled[i] = "true"
        /\ pc[i] = "done"
        /\ installResult[j] = "true" /\ ExecCalls(j) # <<>>

\* The words the user-visible text should carry for the command invoked.
WordsOf(command) ==
    IF command = "build"
    THEN [header |-> "Build", title |-> "Building", failed |-> "Build failed"]
    ELSE [header |-> "Run", title |-> "Running", failed |-> "Run failed"]

\* C13: the header log entry, the progress title and the failure log entry
\* name the mode of the command the user invoked: 'Run', 'Running' and
\* 'Run failed' for run(target), 'Build', 'Building' and 'Build failed' for
\* build(target).
C13_TextNamesTheMode ==
    \A i \in Invocations :
        \A k \in 1..Len(calls[i]) :
            /\ (k = 2 /\ calls[i][k].op = "logger.info") =>
                   calls[i][k].arg =
                       <<WordsOf(invoked[i]).header, target[i]>>
            /\ calls[i][k].op = "withProgress" =>
                   calls[i][k].arg[1] = WordsOf(invoked[i]).title
            /\ (calls[i][k].op = "logger.error" /\ Len(calls[i][k].arg) = 2) =>
                   calls[i][k].arg[1] = WordsOf(invoked[i]).failed

IsSettle(c) == c.op \in {"resolve", "reject"}

Settled(i) == completion[i].state \in {"resolved", "rejected"}

\* C14: the completion promise of a started subprocess is settled by exactly
\* one resolve / reject call, made when the stream terminates: it is resolved
\* if and only if the stream completed and rejected if and only if it errored,
\* it is not settled while items remain to be delivered, and no item is logged
\* or appended after the settling call.
C14_SettledOnceAtTermination ==
    \A i \in Invocations :
        /\ Len(Positions(i, IsSettle)) <= 1
        /\ Settled(i) <=> StreamOver(i)
        /\ Settled(i) <=> Len(Positions(i, IsSettle)) = 1
        /\ completion[i].state = "resolved" <=>
               (StreamOver(i) /\ proc[i] = "completed")
        /\ completion[i].state = "rejected" <=>
               (StreamOver(i) /\ proc[i] = "errored")
        /\ Settled(i) =>
               /\ delivered[i] = Len(emitted[i])
               /\ \A k \in 1..Len(calls[i]) :
                      (IsItemLog(calls[i][k]) \/ IsAppend(calls[i][k])) =>
                          k < Positions(i, IsSettle)[1]

C14_Witness ==
    \E i, j \in Invocations :
        /\ StreamOver(i) /\ completion[i].state = "resolved"
        /\ delivered[i] = 2
        /\ StreamOver(j) /\ completion[j].state = "rejected"
        /\ delivered[j] >= 1

\* Everything invocation i holds: its parameters, locals, calls, subprocess
\* and promises.
InvocationState(i) ==
    << pc[i], invoked[i], buildOrRun[i], target[i], workspaceFolder[i],
       cookieCutterIsInstalled[i], result[i], installResult[i], pythonPath[i],
       beewarePath[i], calls[i], emitted[i], delivered[i], proc[i],
       streamError[i], publicPromise[i], handlerPromise[i], completion[i] >>

\* C15: overlapping invocations do not touch each other: a step of one
\* invocation changes nothing another invocation holds, each invocation's
\* items reach the log and the output channel in its own emission order, and
\* a completion promise is settled by the outcome of its own subprocess only.
C15_InvocationsAreIndependent ==
    /\ [][\A i, j \in Invocations :
            (i # j /\ InvocationState(i)' # InvocationState(i))
            => InvocationState(j)' = InvocationState(j)]_vars
    /\ [](\A i \in Invocations :
            /\ Texts(ItemLogs(i)) = SubSeq(EmittedOuts(i), 1, delivered[i])
            /\ Texts(Appends(i)) = SubSeq(EmittedOuts(i), 1, delivered[i])
            /\ Settled(i) =>
                   completion[i] =
                       IF proc[i] = "completed"
                       THEN Resolved ELSE Rejected(streamError[i]))

\* The later invocation ran its subprocess to an error while the subprocess
\* of the earlier one was still delivering output.
C15_Witness ==
    \E i, j \in Invocations :
        /\ i < j
        /\ pc[i] = "subscribed" /\ completion[i] = Pending
        /\ delivered[i] >= 1
        /\ StreamOver(j) /\ completion[j].state = "rejected"
        /\ delivered[j] >= 1

====
